---- MODULE Spec2Model ----
(***************************************************************************)
(* Model of the runestick Shared Cell: the access counter of access.rs     *)
(* (Access, RawRefGuard, RawMutGuard) and the reference-counted cell of    *)
(* shared.rs (Shared, Inner, RawInner, StrongRef, StrongMut and the raw    *)
(* strong guards).                                                         *)
(*                                                                         *)
(* The program is single threaded (Cell / UnsafeCell, no Sync), so every   *)
(* method call and every Drop is one atomic action.  Handles and guards    *)
(* are the values a safe Rust client holds; the borrow checker's rule that *)
(* a Ref<'_, T> / Mut<'_, T> cannot outlive the handle it was borrowed     *)
(* from (shared.rs:117, 134, 187, 244) is the guard of the actions that    *)
(* move or drop a handle.  Cells do not interact (every method reads and   *)
(* writes the Inner behind its own pointer only), so the model follows one *)
(* cell from Shared::new to its release.                                   *)
(***************************************************************************)
EXTENDS Integers, FiniteSets, Sequences, Bags, TLC

\* Bounds of the model.
MaxHandles == 3
MaxGuards == 3

\* isize / usize limits (access.rs:20 Cell<isize>, shared.rs:362 Cell<usize>)
\* of a 16-bit target, the narrowest pointer width Rust supports.  The limits
\* are far out of reach of MaxHandles / MaxGuards on every target.
ISIZE_MAX == 32767
USIZE_MAX == 65535

\* any::TypeId of the value held by a Shared<Any>, and of the T asked for.
TypeIds == {"T", "U"}
NoType == "-"

Handles == 1..MaxHandles

VARIABLES
    inner,      \* Inner<T> of the cell: access counter, strong count, held type
    heap,       \* allocation state of the cell: "unalloc", "live", "freed"
    frees,      \* number of times the cell's Box was deallocated
    freedWith,  \* strong count / access counter read at the moment of the free
    handles,    \* the Shared<T> values held by the client (a set of handle ids)
    guards,     \* guards held by the client: a bag of [kind, owner]
    uaf,        \* a method dereferenced the inner pointer of a freed cell
    last        \* the last call: method, cell, counters before it, result

\* value/mod.rs: one Value and the outcome of the last method called on it
VARIABLES
    value,      \* the Value: tag, payload, type hash / type id, cell, cell's access
    vout        \* the last call on the value: method and its Result

\* compile/expr_unary.rs: the assembly being built and the last compile call
VARIABLES
    asm,        \* Compiler::asm: the instructions pushed so far, each with its span
    cout        \* the last compile call: expression, Needs, result

\* reflection/mod.rs and the virtual machine: operand stack, call frames,
\* instruction pointer, halt state and the last host call
VARIABLES
    stack,      \* Vm: the operand stack, bottom first
    frames,     \* Vm: the call frames [return_ip, base, kind]
    ip,         \* Vm: the instruction pointer (0 outside a call)
    halt,       \* how the execution stands: kind and, once completed, the value
    vmout       \* the last host call on the Vm: arguments, stack before it, result

\* diagnostics.rs: the writer and the last emit_diagnostics call
VARIABLES
    out,        \* the diagnostics emitted to the writer, in order
    dout        \* the last emit_diagnostics call: the link errors and its Result

\* ast/decl.rs: the parser's token stream and the last peek / parse of a Decl
VARIABLES
    tokens,     \* Parser: the kinds of the tokens not yet consumed
    pout        \* the last call: peek or parse, the leading token, its result

\* vm/ref_count.rs and the strong count of shared.rs as plain counters
VARIABLES
    rc,         \* the counter: RefCount::count / Inner::count
    rcout       \* the last operation on it: its name, the count before, its result

\* reflection/mod.rs: FromValue for tuples
VARIABLES
    fout        \* the last from_value call: arity, value, element log, result

cellVars == <<inner, heap, frees, freedWith, handles, guards, uaf, last>>
valueVars == <<value, vout>>

compileVars == <<asm, cout>>

vmVars == <<stack, frames, ip, halt, vmout>>

diagVars == <<out, dout>>

declVars == <<tokens, pout>>

countVars == <<rc, rcout>>

fromVars == <<fout>>

vars == <<cellVars, valueVars, compileVars, vmVars, diagVars, declVars, countVars,
          fromVars>>

NoCell == "-"
NoInfo == [kind |-> "-", of |-> "-"]

----------------------------------------------------------------------------
\* access.rs: Access

isize_wrapping_sub1(x) == IF x = -ISIZE_MAX - 1 THEN ISIZE_MAX ELSE x - 1
isize_wrapping_add1(x) == IF x = ISIZE_MAX THEN -ISIZE_MAX - 1 ELSE x + 1

Access_new == 0

\* Variant of Access::is_shared that tests for an idle counter.
is_shared_idle_only(a) == a = 0

is_shared(a) == isize_wrapping_sub1(a) < 0

is_exclusive(a) == a = 0

\* Variant of Access::shared refusing only when the new counter is positive.
shared_off_by_one(a) ==
    LET b == isize_wrapping_sub1(a)
    IN  IF b > 0 THEN [ok |-> FALSE, a |-> a] ELSE [ok |-> TRUE, a |-> b]

\* Access::shared: [ok, a] = (guard handed out, counter afterwards)
shared(a) ==
    LET b == isize_wrapping_sub1(a)
    IN  IF b >= 0 THEN [ok |-> FALSE, a |-> a] ELSE [ok |-> TRUE, a |-> b]

\* Variant of Access::exclusive refusing only an exclusive holder.
exclusive_over_shared(a) ==
    LET b == isize_wrapping_add1(a)
    IN  IF b > 1 THEN [ok |-> FALSE, a |-> a] ELSE [ok |-> TRUE, a |-> b]

\* Variant of Access::exclusive that takes over whatever shared borrows exist.
exclusive_takes_over(a) ==
    IF a = 1 THEN [ok |-> FALSE, a |-> a] ELSE [ok |-> TRUE, a |-> 1]

\* Variant of Access::exclusive that marks the exclusive borrow with -1.
exclusive_minus_one(a) ==
    IF a # 0 THEN [ok |-> FALSE, a |-> a] ELSE [ok |-> TRUE, a |-> -1]

\* Access::exclusive
exclusive(a) ==
    LET b == isize_wrapping_add1(a)
    IN  IF b # 1 THEN [ok |-> FALSE, a |-> a] ELSE [ok |-> TRUE, a |-> b]

\* Variant of release_shared that leaves the counter as it is.
release_shared_leak(a) == a

release_shared(a) == isize_wrapping_add1(a)

\* Variant of release_exclusive copied from release_shared.
release_exclusive_add(a) == isize_wrapping_add1(a)

release_exclusive(a) == isize_wrapping_sub1(a)

----------------------------------------------------------------------------
\* shared.rs: strong count arithmetic

\* Variant of Clone for Shared that forgets to store the new count.
clone_count_not_stored(count) ==
    IF count = 0 \/ count = USIZE_MAX
    THEN [abort |-> TRUE, count |-> count]
    ELSE [abort |-> FALSE, count |-> count]

\* Clone for Shared: abort on 0 or usize::MAX, else count + 1
clone_count(count) ==
    IF count = 0 \/ count = USIZE_MAX
    THEN [abort |-> TRUE, count |-> count]
    ELSE [abort |-> FALSE, count |-> count + 1]

\* Variant of Drop for Shared that frees while one other reference remains.
drop_count_early(count) ==
    IF count = 0
    THEN [abort |-> TRUE, count |-> count, free |-> FALSE]
    ELSE [abort |-> FALSE, count |-> count - 1, free |-> (count - 1 <= 1)]

\* Drop for Shared: abort on 0, else count - 1 and free when it reaches 0
drop_count(count) ==
    IF count = 0
    THEN [abort |-> TRUE, count |-> count, free |-> FALSE]
    ELSE [abort |-> FALSE, count |-> count - 1, free |-> (count - 1 = 0)]

\* Variant of drop_fn_impl that never releases the Box.
drop_fn_impl_leak(count) ==
    IF count = 0
    THEN [abort |-> TRUE, count |-> count, free |-> FALSE]
    ELSE [abort |-> FALSE, count |-> count - 1, free |-> FALSE]

\* Variant of drop_fn_impl that also frees a cell whose handle is still held.
drop_fn_impl_early(count) ==
    IF count = 0
    THEN [abort |-> TRUE, count |-> count, free |-> FALSE]
    ELSE [abort |-> FALSE, count |-> count - 1, free |-> (count - 1 <= 1)]

\* RawInner::from_inner::drop_fn_impl, run by Drop for RawInner
drop_fn_impl(count) ==
    IF count = 0
    THEN [abort |-> TRUE, count |-> count, free |-> FALSE]
    ELSE [abort |-> FALSE, count |-> count - 1, free |-> (count - 1 = 0)]

\* Variant of the ownership test that looks at the access counter only.
take_owned_access_only(a, count) == is_exclusive(a)

\* the ownership test of Shared::take / Shared::downcast_take
take_owned(a, count) == ~(~is_exclusive(a) \/ count # 1)

----------------------------------------------------------------------------
\* State helpers

PlainKinds == {"Ref", "Mut"}
StrongKinds == {"StrongRef", "StrongMut", "RawStrongRef", "RawStrongMut"}
SharedKinds == {"Ref", "StrongRef", "RawStrongRef"}
ExclusiveKinds == {"Mut", "StrongMut", "RawStrongMut"}

GuardsOf(kinds) == {g \in BagToSet(guards) : g.kind \in kinds}
Count(kinds) ==
    LET RECURSIVE Sum(_)
        Sum(S) == IF S = {} THEN 0
                  ELSE LET g == CHOOSE x \in S : TRUE
                       IN  CopiesIn(g, guards) + Sum(S \ {g})
    IN  Sum(GuardsOf(kinds))
NumHandles == Cardinality(handles)
NumShared == Count(SharedKinds)
NumExclusive == Count(ExclusiveKinds)
NumStrong == Count(StrongKinds)
NumGuards == BagCardinality(guards)

\* the client has room to hold one more guard
CanHold == BagCardinality(guards) < MaxGuards
Hold(kind, owner) == guards (+) SetToBag({[kind |-> kind, owner |-> owner]})
Release(g) == guards (-) SetToBag({g})
Min(S) == CHOOSE x \in S : \A y \in S : x <= y

\* A Ref / Mut borrows the handle it came from: the handle cannot be moved
\* (take, strong_ref, ...) or dropped while such a guard is alive.
Movable(h) == h \in handles /\ \A g \in BagToSet(guards) : g.owner # h

Running == last.res # "abort"

Call(op, ty, res) ==
    [op |-> op, a |-> inner.access, count |-> inner.count, ty |-> ty, res |-> res]

\* Box::from_raw(inner) going out of scope: the cell's memory is released.
Free(by, count, a) ==
    /\ heap' = "freed"
    /\ frees' = frees + 1
    /\ freedWith' = [by |-> by, count |-> count, access |-> a]

NoFree == UNCHANGED <<heap, frees, freedWith>>

\* A method entered through a handle or guard whose cell is already freed.
Dangling(op) ==
    /\ heap # "live"
    /\ uaf' = TRUE
    /\ last' = Call(op, NoType, "dangling")
    /\ UNCHANGED <<inner, heap, frees, freedWith, handles, guards>>

Init ==
    \* the cell before Shared::new
    /\ inner = [access |-> 0, count |-> 0, data |-> NoType]
    /\ heap = "unalloc"
    /\ frees = 0
    /\ freedWith = [by |-> "none", count |-> 0, access |-> 0]
    /\ handles = {}
    /\ guards = EmptyBag
    /\ uaf = FALSE
    /\ last = [op |-> "init", a |-> 0, count |-> 0, ty |-> NoType, res |-> "none"]
    \* the components not taking part in a specification stay as constructed
    /\ value = [tag |-> "Unit", payload |-> "p", ty |-> "-", cell |-> NoCell, access |-> 0]
    /\ vout = [op |-> "init", ok |-> TRUE, err |-> "-", cell |-> NoCell, info |-> NoInfo]
    /\ asm = <<>>
    /\ cout = [op |-> "init", ops |-> <<>>, leaf |-> "lit", needs |-> "Value",
                ok |-> TRUE, err |-> "-", span |-> 0, before |-> 0]
    /\ stack = <<>>
    /\ frames = <<>>
    /\ ip = 0
    /\ halt = [kind |-> "none", value |-> 0]
    /\ vmout = [op |-> "new", tuple |-> <<>>, before |-> <<>>, ok |-> TRUE]
    /\ out = <<>>
    /\ dout = [op |-> "init", errors |-> <<>>, ok |-> TRUE]
    /\ tokens = <<>>
    /\ pout = [op |-> "init", t1 |-> "eof", to |-> "-", res |-> "none", used |-> 0]
    /\ rc = 0
    /\ rcout = [op |-> "init", before |-> 0, res |-> "none", n |-> 0]
    /\ fout = [op |-> "init", n |-> 0, value |-> [kind |-> "Unit", elems |-> <<>>],
               readable |-> TRUE, ok |-> TRUE, err |-> "-", tuple |-> <<>>,
               log |-> <<>>, actual |-> "-", len |-> 0, expected |-> 0]

\* A step of the Shared Cell leaves the other components alone.
Cell(A) ==
    A /\ UNCHANGED <<valueVars, compileVars, vmVars, diagVars, declVars, countVars,
                     fromVars>>

----------------------------------------------------------------------------
\* shared.rs: Shared<T>

\* Shared::new(data)
Shared_new(t) ==
    /\ Running
    /\ heap = "unalloc"
    /\ inner' = [access |-> Access_new, count |-> 1, data |-> t]
    /\ heap' = "live"
    /\ handles' = {Min(Handles \ handles)}
    /\ last' = [op |-> "new", a |-> 0, count |-> 0, ty |-> t, res |-> "Ok"]
    /\ UNCHANGED <<frees, freedWith, guards, uaf>>

\* The effect of Drop for Shared on handle h, after the access
\* counter has become a (the guard of a failed call is released first).
DropHandle(h, a) ==
    LET d == drop_count(inner.count)
    IN  /\ inner' = [inner EXCEPT !.access = a, !.count = d.count]
        /\ handles' = handles \ {h}
        /\ IF d.free THEN Free("drop", d.count, a) ELSE NoFree

\* Clone for Shared
Shared_clone(h) ==
    /\ Running
    /\ h \in handles
    /\ (Handles \ handles) # {}
    /\ LET n == clone_count(inner.count)
       IN  IF heap # "live" THEN Dangling("clone")
           ELSE /\ inner' = [inner EXCEPT !.count = n.count]
                /\ handles' = IF n.abort THEN handles
                              ELSE handles \cup {Min(Handles \ handles)}
                /\ last' = Call("clone", NoType, IF n.abort THEN "abort" ELSE "Ok")
                /\ UNCHANGED <<heap, frees, freedWith, guards, uaf>>

\* A call that consumes handle h and returns early with error res:
\* the guard taken for the call (if any) has been released, leaving the access
\* counter at a, and then `self` goes out of scope, running Drop for Shared.
ConsumeWithError(op, h, ty, a, res) ==
    LET d == drop_count(inner.count)
    IN  /\ IF d.abort
           THEN UNCHANGED <<inner, handles, heap, frees, freedWith>>
           ELSE DropHandle(h, a)
        /\ last' = Call(op, ty, IF d.abort THEN "abort" ELSE res)
        /\ UNCHANGED <<guards, uaf>>

\* Drop for Shared
Shared_drop(h) ==
    /\ Running
    /\ Movable(h)
    /\ IF heap # "live" THEN Dangling("drop")
           ELSE ConsumeWithError("drop", h, NoType, inner.access, "Ok")

\* Shared::take(self)
Shared_take(h) ==
    /\ Running
    /\ Movable(h)
    /\ IF heap # "live" THEN Dangling("take")
           ELSE IF ~take_owned(inner.access, inner.count)
           THEN ConsumeWithError("take", h, NoType, inner.access, "NotOwned")
           ELSE \* ManuallyDrop::new(self): Drop for Shared does not run;
                \* Box::from_raw(inner) releases the cell, data moved out.
                /\ handles' = handles \ {h}
                /\ Free("take", inner.count, inner.access)
                /\ last' = Call("take", NoType, "Ok")
                /\ UNCHANGED <<inner, guards, uaf>>

\* Variant of downcast_take that leaves the cell allocated when the type
\* differs.
Shared_downcast_take_keeps_mismatch(h, t) ==
    /\ Running
    /\ Movable(h)
    /\ IF heap # "live" THEN Dangling("downcast_take")
           ELSE IF ~take_owned(inner.access, inner.count)
           THEN ConsumeWithError("downcast_take", h, t, inner.access, "NotOwned")
           ELSE IF inner.data # t
           THEN /\ handles' = handles \ {h}
                /\ last' = Call("downcast_take", t, "UnexpectedValueType")
                /\ UNCHANGED <<inner, heap, frees, freedWith, guards, uaf>>
           ELSE /\ handles' = handles \ {h}
                /\ Free("take", inner.count, inner.access)
                /\ last' = Call("downcast_take", t, "Ok")
                /\ UNCHANGED <<inner, guards, uaf>>

\* Shared<Any>::downcast_take::<T>(self)
Shared_downcast_take(h, t) ==
    /\ Running
    /\ Movable(h)
    /\ IF heap # "live" THEN Dangling("downcast_take")
           ELSE IF ~take_owned(inner.access, inner.count)
           THEN ConsumeWithError("downcast_take", h, t, inner.access, "NotOwned")
           ELSE \* the Box is released on both arms of the match: the value is
                \* returned on Ok and the Any dropped on Err
                /\ handles' = handles \ {h}
                /\ Free("take", inner.count, inner.access)
                /\ last' = Call("downcast_take", t,
                                IF inner.data = t THEN "Ok" ELSE "UnexpectedValueType")
                /\ UNCHANGED <<inner, guards, uaf>>

\* Variant of the plain borrow that compares the type before it asks for
\* access.
BorrowPlain_type_first(op, h, t, acq, rel, kind, err) ==
    LET typed == t = NoType \/ inner.data = t
    IN  IF heap # "live" THEN Dangling(op)
        ELSE IF ~typed
        THEN /\ last' = Call(op, t, "UnexpectedValueType")
             /\ UNCHANGED <<inner, heap, frees, freedWith, handles, guards, uaf>>
        ELSE IF ~acq.ok
        THEN /\ last' = Call(op, t, err)
             /\ UNCHANGED <<inner, heap, frees, freedWith, handles, guards, uaf>>
        ELSE /\ CanHold
             /\ inner' = [inner EXCEPT !.access = acq.a]
             /\ guards' = Hold(kind, h)
             /\ last' = Call(op, t, "Ok")
             /\ UNCHANGED <<heap, frees, freedWith, handles, uaf>>

\* A borrow through &self handing out a Ref / Mut tied to handle h.
\* acq is Access::shared or Access::exclusive applied to the counter, rel the
\* release run when the guard is dropped on the type-mismatch return.
BorrowPlain(op, h, t, acq, rel, kind, err) ==
    LET typed == t = NoType \/ inner.data = t
    IN  IF heap # "live" THEN Dangling(op)
        ELSE IF ~acq.ok
        THEN /\ last' = Call(op, t, err)
             /\ UNCHANGED <<inner, heap, frees, freedWith, handles, guards, uaf>>
        ELSE IF ~typed
        THEN /\ inner' = [inner EXCEPT !.access = rel]
             /\ last' = Call(op, t, "UnexpectedValueType")
             /\ UNCHANGED <<heap, frees, freedWith, handles, guards, uaf>>
        ELSE /\ CanHold
             /\ inner' = [inner EXCEPT !.access = acq.a]
             /\ guards' = Hold(kind, h)
             /\ last' = Call(op, t, "Ok")
             /\ UNCHANGED <<heap, frees, freedWith, handles, uaf>>

\* Shared::get_ref(&self)
Shared_get_ref(h) ==
    /\ Running /\ h \in handles
    /\ LET a == inner.access
       IN  BorrowPlain("get_ref", h, NoType, shared(a), release_shared(shared(a).a),
                       "Ref", "NotAccessibleRef")

\* Shared::get_mut(&self)
Shared_get_mut(h) ==
    /\ Running /\ h \in handles
    /\ LET a == inner.access
       IN  BorrowPlain("get_mut", h, NoType, exclusive(a), release_exclusive(exclusive(a).a),
                       "Mut", "NotAccessibleMut")

\* Variant of downcast_ref that hands out the guard without looking at the
\* type id.
Shared_downcast_ref_untyped(h, t) ==
    /\ Running /\ h \in handles
    /\ LET acq == shared(inner.access)
       IN  IF heap # "live" THEN Dangling("downcast_ref")
           ELSE IF ~acq.ok
           THEN /\ last' = Call("downcast_ref", t, "NotAccessibleRef")
                /\ UNCHANGED <<inner, heap, frees, freedWith, handles, guards, uaf>>
           ELSE /\ CanHold
                /\ inner' = [inner EXCEPT !.access = acq.a]
                /\ guards' = Hold("Ref", h)
                /\ last' = Call("downcast_ref", t, "Ok")
                /\ UNCHANGED <<heap, frees, freedWith, handles, uaf>>

\* Shared<Any>::downcast_ref::<T>(&self)
Shared_downcast_ref(h, t) ==
    /\ Running /\ h \in handles
    /\ LET a == inner.access
       IN  BorrowPlain("downcast_ref", h, t, shared(a), release_shared(shared(a).a),
                       "Ref", "NotAccessibleRef")

\* Shared<Any>::downcast_mut::<T>(&self)
Shared_downcast_mut(h, t) ==
    /\ Running /\ h \in handles
    /\ LET a == inner.access
       IN  BorrowPlain("downcast_mut", h, t, exclusive(a), release_exclusive(exclusive(a).a),
                       "Mut", "NotAccessibleMut")

\* Variant of the strong borrow that gives the handle back on an error.
BorrowStrong_by_ref(op, h, t, acq, rel, kind, err) ==
    LET typed == t = NoType \/ inner.data = t
    IN  IF heap # "live" THEN Dangling(op)
        ELSE IF ~acq.ok
        THEN /\ last' = Call(op, t, err)
             /\ UNCHANGED <<inner, heap, frees, freedWith, handles, guards, uaf>>
        ELSE IF ~typed
        THEN /\ inner' = [inner EXCEPT !.access = rel]
             /\ last' = Call(op, t, "UnexpectedValueType")
             /\ UNCHANGED <<heap, frees, freedWith, handles, guards, uaf>>
        ELSE /\ CanHold
             /\ inner' = [inner EXCEPT !.access = acq.a]
             /\ handles' = handles \ {h}
             /\ guards' = Hold(kind, 0)
             /\ last' = Call(op, t, "Ok")
             /\ UNCHANGED <<heap, frees, freedWith, uaf>>

\* A borrow through `self` handing out a StrongRef / StrongMut.  On success
\* the handle is wrapped in ManuallyDrop and its strong-count token passes to
\* the guard's RawInner; on either error `self` is dropped.
BorrowStrong(op, h, t, acq, rel, kind, err) ==
    LET typed == t = NoType \/ inner.data = t
    IN  IF heap # "live" THEN Dangling(op)
        ELSE IF ~acq.ok
        THEN ConsumeWithError(op, h, t, inner.access, err)
        ELSE IF ~typed
        THEN ConsumeWithError(op, h, t, rel, "UnexpectedValueType")
        ELSE /\ CanHold
             /\ inner' = [inner EXCEPT !.access = acq.a]
             /\ handles' = handles \ {h}
             /\ guards' = Hold(kind, 0)
             /\ last' = Call(op, t, "Ok")
             /\ UNCHANGED <<heap, frees, freedWith, uaf>>

\* Shared::strong_ref(self)
Shared_strong_ref(h) ==
    /\ Running /\ Movable(h)
    /\ LET a == inner.access
       IN  BorrowStrong("strong_ref", h, NoType, shared(a), release_shared(shared(a).a),
                        "StrongRef", "NotAccessibleRef")

\* Shared::strong_mut(self)
Shared_strong_mut(h) ==
    /\ Running /\ Movable(h)
    /\ LET a == inner.access
       IN  BorrowStrong("strong_mut", h, NoType, exclusive(a),
                        release_exclusive(exclusive(a).a), "StrongMut", "NotAccessibleMut")

\* Shared<Any>::downcast_strong_ref::<T>(self)
Shared_downcast_strong_ref(h, t) ==
    /\ Running /\ Movable(h)
    /\ LET a == inner.access
       IN  BorrowStrong("downcast_strong_ref", h, t, shared(a),
                        release_shared(shared(a).a), "StrongRef", "NotAccessibleRef")

\* Shared<Any>::downcast_strong_mut::<T>(self)
Shared_downcast_strong_mut(h, t) ==
    /\ Running /\ Movable(h)
    /\ LET a == inner.access
       IN  BorrowStrong("downcast_strong_mut", h, t, exclusive(a),
                        release_exclusive(exclusive(a).a), "StrongMut", "NotAccessibleMut")

\* Access::is_shared / Access::is_exclusive called on the cell's counter
\* (crate-internal probes: &self, Cell::get only)
Access_is_shared(h) ==
    /\ Running /\ h \in handles
    /\ IF heap # "live" THEN Dangling("is_shared")
       ELSE /\ last' = Call("is_shared", NoType,
                            IF is_shared(inner.access) THEN "true" ELSE "false")
            /\ UNCHANGED <<inner, heap, frees, freedWith, handles, guards, uaf>>

Access_is_exclusive(h) ==
    /\ Running /\ h \in handles
    /\ IF heap # "live" THEN Dangling("is_exclusive")
       ELSE /\ last' = Call("is_exclusive", NoType,
                            IF is_exclusive(inner.access) THEN "true" ELSE "false")
            /\ UNCHANGED <<inner, heap, frees, freedWith, handles, guards, uaf>>

----------------------------------------------------------------------------
\* Guards

\* fmt::Debug for Shared<T>: the placeholder is written when is_shared()
\* holds, the interior value is read and formatted otherwise.
Shared_fmt(h) ==
    /\ Running /\ h \in handles
    /\ IF heap # "live" THEN Dangling("fmt")
       ELSE /\ last' = Call("fmt", NoType,
                            IF is_shared(inner.access) THEN "inaccessible" ELSE "data")
            /\ UNCHANGED <<inner, heap, frees, freedWith, handles, guards, uaf>>

\* Variant of try_map whose failure forgets the guard instead of dropping it.
TryMap_keeps_borrow(op, g, ok, rel) ==
    /\ Running
    /\ g \in BagToSet(guards)
    /\ IF heap # "live" THEN Dangling(op)
       ELSE /\ guards' = IF ok THEN guards ELSE Release(g)
            /\ last' = Call(op, NoType, IF ok THEN "Ok" ELSE "Err")
            /\ UNCHANGED <<inner, heap, frees, freedWith, handles, uaf>>

\* Ref::try_map / Mut::try_map(this, m): m runs on the borrowed value; on Ok
\* the guard moves into the returned Ref / Mut, on Err the `?` returns and
\* `this`, with its guard, is dropped.
TryMap(op, g, ok, rel) ==
    /\ Running
    /\ g \in BagToSet(guards)
    /\ IF heap # "live" THEN Dangling(op)
       ELSE IF ok
       THEN /\ last' = Call(op, NoType, "Ok")
            /\ UNCHANGED <<inner, heap, frees, freedWith, handles, guards, uaf>>
       ELSE /\ inner' = [inner EXCEPT !.access = rel]
            /\ guards' = Release(g)
            /\ last' = Call(op, NoType, "Err")
            /\ UNCHANGED <<heap, frees, freedWith, handles, uaf>>

Ref_try_map(g, ok) ==
    g.kind = "Ref" /\ TryMap("ref_try_map", g, ok, release_shared(inner.access))

Mut_try_map(g, ok) ==
    g.kind = "Mut" /\ TryMap("mut_try_map", g, ok, release_exclusive(inner.access))

\* StrongRef::into_raw / StrongMut::into_raw: the access guard and the RawInner
\* move into the raw guard.
Strong_into_raw(g) ==
    /\ Running
    /\ g \in GuardsOf({"StrongRef", "StrongMut"})
    /\ IF heap # "live" THEN Dangling("into_raw")
           ELSE /\ guards' = Release(g) (+) SetToBag({[g EXCEPT !.kind =
                                 IF @ = "StrongRef" THEN "RawStrongRef" ELSE "RawStrongMut"]})
                /\ last' = Call("into_raw", NoType, "Ok")
                /\ UNCHANGED <<inner, heap, frees, freedWith, handles, uaf>>

\* Drop of a Ref (its RawRefGuard) or of a Mut (its RawMutGuard)
Plain_drop(g) ==
    /\ Running
    /\ g \in GuardsOf(PlainKinds)
    /\ LET a == inner.access
       IN  IF heap # "live" THEN Dangling("guard_drop")
           ELSE /\ inner' = [inner EXCEPT !.access =
                                IF g.kind = "Ref" THEN release_shared(a)
                                ELSE release_exclusive(a)]
                /\ guards' = Release(g)
                /\ last' = Call("guard_drop", NoType, "Ok")
                /\ UNCHANGED <<heap, frees, freedWith, handles, uaf>>

\* Variant of the strong guard's drop with the fields the other way round:
\* the RawInner gives its token back first, the access guard releases after.
Strong_drop_token_first(g) ==
    /\ Running
    /\ g \in GuardsOf(StrongKinds)
    /\ LET a == IF g.kind \in SharedKinds
                THEN release_shared(inner.access)
                ELSE release_exclusive(inner.access)
           d == drop_fn_impl(inner.count)
       IN  IF heap # "live" THEN Dangling("strong_drop")
           ELSE /\ inner' = [inner EXCEPT !.access = a, !.count = d.count]
                /\ guards' = IF d.abort THEN guards ELSE Release(g)
                /\ IF d.free THEN Free("drop", d.count, inner.access) ELSE NoFree
                /\ uaf' = (uaf \/ d.free)
                /\ last' = Call("strong_drop", NoType, IF d.abort THEN "abort" ELSE "Ok")
                /\ UNCHANGED handles

\* Drop of a StrongRef / StrongMut / RawStrongRefGuard / RawStrongMutGuard:
\* fields drop in declaration order, the access guard first, then the
\* RawInner, whose drop_fn gives the strong-count token back.
Strong_drop(g) ==
    /\ Running
    /\ g \in GuardsOf(StrongKinds)
    /\ LET a == IF g.kind \in SharedKinds
                THEN release_shared(inner.access)
                ELSE release_exclusive(inner.access)
           d == drop_fn_impl(inner.count)
       IN  IF heap # "live" THEN Dangling("strong_drop")
           ELSE /\ inner' = [inner EXCEPT !.access = a, !.count = d.count]
                /\ guards' = IF d.abort THEN guards ELSE Release(g)
                /\ IF d.free THEN Free("drop", d.count, a) ELSE NoFree
                /\ last' = Call("strong_drop", NoType, IF d.abort THEN "abort" ELSE "Ok")
                /\ UNCHANGED <<handles, uaf>>

Next ==
    \/ \E t \in TypeIds : Cell(Shared_new(t))
    \/ \E h \in Handles : Cell(Shared_clone(h))
    \/ \E h \in Handles : Cell(Shared_drop(h))
    \/ \E h \in Handles : Cell(Shared_take(h))
    \/ \E h \in Handles, t \in TypeIds : Cell(Shared_downcast_take(h, t))
    \/ \E h \in Handles : Cell(Shared_get_ref(h))
    \/ \E h \in Handles : Cell(Shared_get_mut(h))
    \/ \E h \in Handles, t \in TypeIds : Cell(Shared_downcast_ref(h, t))
    \/ \E h \in Handles, t \in TypeIds : Cell(Shared_downcast_mut(h, t))
    \/ \E h \in Handles : Cell(Shared_strong_ref(h))
    \/ \E h \in Handles : Cell(Shared_strong_mut(h))
    \/ \E h \in Handles, t \in TypeIds : Cell(Shared_downcast_strong_ref(h, t))
    \/ \E h \in Handles, t \in TypeIds : Cell(Shared_downcast_strong_mut(h, t))
    \/ \E h \in Handles : Cell(Access_is_shared(h))
    \/ \E h \in Handles : Cell(Access_is_exclusive(h))
    \/ \E h \in Handles : Cell(Shared_fmt(h))
    \/ \E g \in BagToSet(guards), ok \in BOOLEAN : Cell(Ref_try_map(g, ok))
    \/ \E g \in BagToSet(guards), ok \in BOOLEAN : Cell(Mut_try_map(g, ok))
    \/ \E g \in BagToSet(guards) : Cell(Strong_into_raw(g))
    \/ \E g \in BagToSet(guards) : Cell(Plain_drop(g))
    \/ \E g \in BagToSet(guards) : Cell(Strong_drop(g))

Spec == Init /\ [][Next]_vars

----------------------------------------------------------------------------
\* Properties

\* the methods that go through Access::shared / Access::exclusive
SharedOps == {"get_ref", "strong_ref", "downcast_ref", "downcast_strong_ref"}
ExclusiveOps == {"get_mut", "strong_mut", "downcast_mut", "downcast_strong_mut"}
StrongOps == {"strong_ref", "strong_mut", "downcast_strong_ref", "downcast_strong_mut"}
\* results of a call whose Access::shared / Access::exclusive returned Ok:
\* the guard was handed out, or was taken and released on a type mismatch
Acquired == {"Ok", "UnexpectedValueType"}

\* C1: whenever every guard that was handed out has been dropped, the access
\* counter is 0, whatever borrows, failed borrows and guard drops came before.
C1_AllGuardsDroppedCounterZero ==
    (heap # "unalloc" /\ NumGuards = 0) => inner.access = 0

\* guards were handed out (two at once, then an exclusive one refused) and the
\* last of them has just been dropped
C1_Witness ==
    /\ last.op \in {"guard_drop", "strong_drop"}
    /\ last.a = -1
    /\ heap = "live"
    /\ NumGuards = 0
    /\ inner.access = 0

\* C2: an exclusive guard excludes every other guard, and a conflicting borrow
\* attempt returns its typed error at once, decided by the counter alone and
\* before the type is looked at, leaving counter and guards as they were.
C2_ExclusiveExcludes ==
    /\ NumExclusive <= 1
    /\ NumExclusive = 1 => NumShared = 0
    /\ last.op \in SharedOps =>
          /\ last.res = "NotAccessibleRef" <=> last.a = 1
          /\ last.res = "NotAccessibleRef" <=> NumExclusive = 1
          /\ last.res = "NotAccessibleRef" => inner.access = last.a
    /\ last.op \in ExclusiveOps =>
          /\ last.res = "NotAccessibleMut" <=> last.a # 0
          /\ last.res = "NotAccessibleMut" => (NumGuards >= 1 /\ inner.access = last.a)
          /\ last.res = "Ok" => (NumExclusive = 1 /\ NumShared = 0)

\* a shared borrow of the wrong type refused because an exclusive guard is out
C2_Witness ==
    /\ last.op = "downcast_ref"
    /\ last.ty # inner.data
    /\ last.res = "NotAccessibleRef"
    /\ NumExclusive = 1
    /\ heap = "live"

\* C3: Access::shared succeeds exactly when a <= 0 and then decrements a by
\* one; at a = 1 it fails with NotAccessibleRef and a is unchanged.
C3_SharedBorrow ==
    last.op \in SharedOps =>
        /\ last.res \in Acquired <=> last.a <= 0
        /\ last.res = "Ok" => inner.access = last.a - 1
        /\ last.a = 1 => (last.res = "NotAccessibleRef" /\ inner.access = 1)
        /\ last.res \notin Acquired => last.res = "NotAccessibleRef"

\* a second shared borrow granted while one is out
C3_Witness ==
    /\ last.op = "get_ref"
    /\ last.res = "Ok"
    /\ last.a = -1
    /\ inner.access = -2
    /\ NumShared = 2

\* C4: Access::exclusive succeeds exactly when a = 0 and then sets a to 1; in
\* every other state, in particular with a shared borrow out, it fails with
\* NotAccessibleMut and a is unchanged.
C4_ExclusiveBorrow ==
    last.op \in ExclusiveOps =>
        /\ last.res \in Acquired <=> last.a = 0
        /\ last.res = "Ok" => inner.access = 1
        /\ last.res \notin Acquired =>
              (last.res = "NotAccessibleMut" /\ inner.access = last.a)
        /\ (last.res = "NotAccessibleMut" /\ last.a < 0) => NumShared = -last.a

\* an exclusive borrow refused while two shared borrows are out
C4_Witness ==
    /\ last.op = "get_mut"
    /\ last.res = "NotAccessibleMut"
    /\ last.a = -2
    /\ NumShared = 2
    /\ inner.access = -2

\* C5: the counter encodes the outstanding guards: 0 iff none, -k iff exactly
\* k shared and no exclusive, 1 iff exactly one exclusive and no shared; never
\* above 1.
C5_CounterEncodesGuards ==
    /\ inner.access <= 1
    /\ inner.access = 0 <=> NumGuards = 0
    /\ \A k \in 1..MaxGuards :
          inner.access = -k <=> (NumShared = k /\ NumExclusive = 0)
    /\ inner.access = 1 <=> (NumExclusive = 1 /\ NumShared = 0)

\* shared guards of both sorts are out: a Ref, a StrongRef and a raw strong guard
C5_Witness ==
    /\ inner.access = -3
    /\ GuardsOf({"Ref"}) # {}
    /\ GuardsOf({"StrongRef"}) # {}
    /\ GuardsOf({"RawStrongRef"}) # {}

\* C6: Shared::take returns the interior value exactly when the strong count
\* is 1 and the access counter is 0; otherwise it fails with NotOwned and the
\* value stays in the cell.
C6_Take ==
    last.op = "take" =>
        /\ last.res = "Ok" <=> (last.count = 1 /\ last.a = 0)
        /\ last.res = "Ok" => (heap = "freed" /\ freedWith.by = "take")
        /\ last.res # "Ok" =>
              (last.res = "NotOwned" /\ heap = "live" /\ freedWith.by = "none")

\* take refused: a StrongRef holds the second strong-count token and its
\* shared borrow is out
C6_Witness ==
    /\ last.op = "take"
    /\ last.res = "NotOwned"
    /\ last.count = 2
    /\ last.a = -1
    /\ heap = "live"

\* C7 as stated: the cell is freed only in a state where the strong count has
\* reached zero and the access counter is 0.
C7_FreedOnlyAtCountZero ==
    heap = "freed" => (freedWith.count = 0 /\ freedWith.access = 0)

\* C7 amended: the cell is freed only with the access counter at 0, and either
\* by the drop (of a handle or of a strong guard's token) that brings the
\* strong count to zero, or by a successful take / downcast_take, which
\* releases the cell with the strong count still 1; no handle or guard is left.
C7_FreedOnlyUnborrowedLastRef ==
    heap = "freed" =>
        /\ freedWith.access = 0
        /\ \/ freedWith.by = "drop" /\ freedWith.count = 0
           \/ freedWith.by = "take" /\ freedWith.count = 1
        /\ NumHandles = 0
        /\ NumGuards = 0

\* the cell was freed by the drop of the last strong guard, whose borrow was
\* still out when the drop began
C7_Witness ==
    /\ heap = "freed"
    /\ last.op = "strong_drop"
    /\ last.a # 0
    /\ last.count = 1
    /\ freedWith.by = "drop"

\* C8: a strong guard holds one strong-count token: turning a handle into a
\* strong guard (and a strong guard into a raw one) leaves the strong count
\* unchanged, and the cell stays allocated while a strong guard is alive, also
\* after every handle is gone.
C8_StrongGuardHoldsToken ==
    /\ (last.op \in StrongOps \cup {"into_raw"} /\ last.res = "Ok") =>
          inner.count = last.count
    /\ NumStrong >= 1 => (heap = "live" /\ inner.count >= NumStrong)

\* the last handle has just been dropped and a raw strong guard keeps the
\* cell alive
C8_Witness ==
    /\ last.op = "drop"
    /\ NumHandles = 0
    /\ GuardsOf({"RawStrongMut"}) # {}
    /\ heap = "live"
    /\ inner.count = 1

\* C9: clone adds one to the strong count, drop takes one off; while the cell
\* is allocated the count equals live handles plus live strong guards; the
\* drop that brings the count to zero frees the cell.
C9_StrongCount ==
    /\ heap = "live" => inner.count = NumHandles + NumStrong
    /\ (last.op = "clone" /\ last.res = "Ok") => inner.count = last.count + 1
    /\ (last.op = "drop" /\ last.res = "Ok") => inner.count = last.count - 1
    /\ (last.op \in {"drop", "strong_drop"} /\ last.res = "Ok") =>
          (heap = "freed" <=> last.count = 1)
    /\ heap = "live" => inner.count >= 1

\* a second clone, with a strong guard holding a token as well
C9_Witness ==
    /\ last.op = "clone"
    /\ last.res = "Ok"
    /\ last.count = 2
    /\ NumHandles = 2
    /\ NumStrong = 1
    /\ inner.count = 3

\* C10: the cell is freed exactly once: never twice, once every handle and
\* guard is released it has been freed, and nothing refers to or enters a
\* freed cell (a successful take does not also run Drop for Shared).
C10_FreedExactlyOnce ==
    /\ frees <= 1
    /\ frees = 1 <=> heap = "freed"
    /\ (heap # "unalloc" /\ NumHandles = 0 /\ NumGuards = 0) => frees = 1
    /\ heap = "freed" => (NumHandles = 0 /\ NumGuards = 0)
    /\ ~uaf

\* a successful downcast_take of the wrong type released the cell, once
C10_Witness ==
    /\ last.op = "downcast_take"
    /\ last.res = "UnexpectedValueType"
    /\ heap = "freed"
    /\ frees = 1
    /\ NumHandles = 0

\* C11: downcast_ref::<T> returns a guard exactly when a shared borrow is
\* permitted (a <= 0) and the held type id is T's; on success it holds one
\* shared borrow (a decremented by one), accounted for while the Ref is alive.
C11_DowncastRef ==
    /\ last.op = "downcast_ref" =>
          /\ last.res = "Ok" <=> (last.a <= 0 /\ inner.data = last.ty)
          /\ last.res = "Ok" =>
                (inner.access = last.a - 1 /\ GuardsOf({"Ref"}) # {})
          /\ last.res # "Ok" => inner.access = last.a
    /\ inner.access <= 0 => NumShared = -inner.access

\* downcast_ref to the held type granted beside an outstanding shared borrow
C11_Witness ==
    /\ last.op = "downcast_ref"
    /\ last.res = "Ok"
    /\ last.ty = inner.data
    /\ last.a = -1
    /\ inner.access = -2

\* C19 as stated: the borrow count is 0 when idle, -1 while an exclusive
\* borrow is held, and the negated number of shared borrows while shared
\* borrows are held.
C19_ExclusiveIsMinusOne ==
    /\ NumGuards = 0 => inner.access = 0
    /\ NumExclusive >= 1 => inner.access = -1
    /\ NumShared >= 1 => inner.access = -NumShared

\* C19 amended: the borrow count is 0 when idle, +1 while an exclusive borrow
\* is held, and -n while n >= 1 shared borrows are held; it takes no other
\* value.
C19_BorrowCountSet ==
    /\ inner.access \in {1} \cup {-n : n \in 0..MaxGuards}
    /\ NumGuards = 0 => inner.access = 0
    /\ NumExclusive >= 1 => inner.access = 1
    /\ NumShared >= 1 => inner.access = -NumShared

\* an exclusive strong borrow is held
C19_Witness ==
    /\ GuardsOf({"StrongMut"}) # {}
    /\ NumExclusive = 1
    /\ inner.access = 1
    /\ heap = "live"

\* C20: is_shared / is_exclusive leave the counter alone and answer what the
\* acquiring call would do: is_shared() is true iff shared() would succeed
\* (a <= 0), is_exclusive() is true iff exclusive() would succeed (a = 0).
C20_ProbesAgree ==
    /\ last.op = "is_shared" =>
          /\ last.res = "true" <=> last.a <= 0
          /\ last.res = "true" <=> shared(last.a).ok
          /\ last.res \in {"true", "false"}
          /\ inner.access = last.a
    /\ last.op = "is_exclusive" =>
          /\ last.res = "true" <=> last.a = 0
          /\ last.res = "true" <=> exclusive(last.a).ok
          /\ last.res \in {"true", "false"}
          /\ inner.access = last.a

\* is_shared answers true while two shared borrows are out, where
\* is_exclusive would answer false
C20_Witness ==
    /\ last.op = "is_shared"
    /\ last.res = "true"
    /\ last.a = -2
    /\ ~exclusive(last.a).ok
    /\ NumShared = 2

\* C21: downcast_take::<T> returns the value exactly when the strong count
\* is 1, the access counter is 0 and the held type is T; a failed ownership
\* check gives NotOwned and hands nothing out (the handle is dropped like any
\* other); with ownership and another type it gives UnexpectedValueType, the
\* handle is consumed and the cell is freed exactly once.
C21_DowncastTake ==
    last.op = "downcast_take" =>
        /\ last.res \in {"Ok", "NotOwned", "UnexpectedValueType"}
        /\ last.res = "Ok" <=>
              (last.count = 1 /\ last.a = 0 /\ inner.data = last.ty)
        /\ last.res = "NotOwned" <=> ~(last.count = 1 /\ last.a = 0)
        /\ last.res = "NotOwned" =>
              /\ inner.count = last.count - 1
              /\ freedWith.by # "take"
        /\ last.res = "UnexpectedValueType" =>
              (last.count = 1 /\ last.a = 0 /\ inner.data # last.ty)
        /\ last.res \in {"Ok", "UnexpectedValueType"} =>
              /\ heap = "freed"
              /\ frees = 1
              /\ freedWith.by = "take"
              /\ NumHandles = 0

\* downcast_take to another type on the only handle of an idle cell
C21_Witness ==
    /\ last.op = "downcast_take"
    /\ last.res = "UnexpectedValueType"
    /\ last.count = 1
    /\ heap = "freed"
    /\ frees = 1

\* C22: a downcast that fails leaves the access counter as it was before the
\* call, and when the cell is both inaccessible and of another type the access
\* error is returned: the borrow is checked before the type.
C22_FailedDowncastRestores ==
    (last.op \in {"downcast_ref", "downcast_mut", "downcast_strong_ref",
                 "downcast_strong_mut"} /\ last.res # "Ok") =>
        /\ inner.access = last.a
        /\ last.res \in {"NotAccessibleRef", "NotAccessibleMut", "UnexpectedValueType"}
        /\ last.op \in SharedOps =>
              (last.res = "NotAccessibleRef" <=> ~shared(last.a).ok)
        /\ last.op \in ExclusiveOps =>
              (last.res = "NotAccessibleMut" <=> ~exclusive(last.a).ok)
        /\ last.res = "UnexpectedValueType" => inner.data # last.ty

\* downcast_mut to another type on a cell with a shared borrow out
C22_Witness ==
    /\ last.op = "downcast_mut"
    /\ last.res = "NotAccessibleMut"
    /\ inner.data # last.ty
    /\ last.a = -1
    /\ inner.access = -1

\* C23: a strong borrow that returns an error has consumed its handle: the
\* strong count is one less, the access counter is as before the call, and the
\* failure frees the cell only when that handle was the last strong reference
\* and no borrow is outstanding.
C23_FailedStrongConsumes ==
    [][(last'.op \in StrongOps /\ last'.res \in {"NotAccessibleRef", "NotAccessibleMut",
                                             "UnexpectedValueType"}) =>
          /\ handles' \subseteq handles
          /\ Cardinality(handles') = Cardinality(handles) - 1
          /\ inner'.count = inner.count - 1
          /\ inner'.access = inner.access
          /\ guards' = guards
          /\ frees' # frees =>
                /\ inner.count = 1
                /\ inner.access = 0
                /\ NumGuards = 0
                /\ handles' = {}
          /\ frees' = frees => inner'.count >= 1]_cellVars

\* downcast_strong_ref to another type through the last handle freed the cell
C23_Witness ==
    /\ last.op = "downcast_strong_ref"
    /\ last.res = "UnexpectedValueType"
    /\ last.count = 1
    /\ inner.count = 0
    /\ heap = "freed"
    /\ freedWith.by = "drop"

\* C24: dropping a strong guard releases its borrow before it gives back its
\* strong-count token: the counter read at the free is already the restored
\* one, and no step touches the counter of a freed cell.
C24_ReleaseBeforeToken ==
    /\ ~uaf
    /\ heap = "freed" => freedWith.access = inner.access
    /\ (last.op = "strong_drop" /\ last.res = "Ok") =>
          /\ inner.access \in {release_shared(last.a), release_exclusive(last.a)}
          /\ inner.count = last.count - 1
          /\ heap = "freed" <=> last.count = 1
          /\ heap = "freed" => freedWith.access = 0

\* the drop of a raw exclusive strong guard, the last owner, freed the cell
C24_Witness ==
    /\ last.op = "strong_drop"
    /\ last.a = 1
    /\ last.count = 1
    /\ heap = "freed"
    /\ freedWith.access = 0
    /\ inner.access = 0

\* C25: Debug-formatting a Shared reads the interior value only when the
\* access counter is <= 0; while an exclusive borrow is outstanding it prints
\* the `inaccessible` placeholder and does not read the value.
C25_FmtReadsOnlyShared ==
    last.op = "fmt" =>
        /\ last.res = "data" => last.a <= 0
        /\ last.a = 1 => last.res = "inaccessible"

\* What the formatter does: the placeholder exactly when the counter is <= 0,
\* a read of the value exactly when an exclusive borrow is out; the counters
\* are left alone either way.
C25_FmtAsWritten ==
    last.op = "fmt" =>
        /\ last.res = "inaccessible" <=> last.a <= 0
        /\ last.res = "data" <=> last.a = 1
        /\ inner.access = last.a
        /\ inner.count = last.count

\* the value is read for formatting while a Mut guard is alive
C25_Witness ==
    /\ last.op = "fmt"
    /\ last.res = "data"
    /\ NumExclusive = 1

\* C30: a try_map that succeeds keeps the borrow (the guard lives on in the
\* mapped guard and the counter is unchanged); one that fails has dropped the
\* guard and the counter is back to what it was before that borrow.
C30_TryMap ==
    [][last'.op \in {"ref_try_map", "mut_try_map"} =>
          /\ last'.res = "Ok" =>
                /\ guards' = guards
                /\ inner'.access = inner.access
          /\ last'.res = "Err" =>
                /\ BagCardinality(guards') = BagCardinality(guards) - 1
                /\ last'.op = "ref_try_map" =>
                      /\ inner'.access = inner.access + 1
                      /\ inner'.access = -Count(SharedKinds)'
                /\ last'.op = "mut_try_map" =>
                      /\ inner.access = 1
                      /\ inner'.access = 0
                      /\ guards' = EmptyBag
          /\ inner'.count = inner.count
          /\ handles' = handles
          /\ heap' = heap]_cellVars

\* a failed Mut::try_map returned the cell to idle
C30_Witness ==
    /\ last.op = "mut_try_map"
    /\ last.res = "Err"
    /\ last.a = 1
    /\ inner.access = 0
    /\ NumGuards = 0
    /\ heap = "live"

----------------------------------------------------------------------------
\* value/mod.rs: Value

Hashes == {"h1", "h2"}

\* The variants of enum Value
InlineTags == {"Unit", "Bool", "Byte", "Char", "Integer", "Float", "StaticString"}
BuiltinTags == {"String", "Bytes", "Vec", "Tuple", "Object", "Future", "Option", "Result"}
TypedTags == {"TypedTuple", "TypedObject"}

\* The values of each variant; a Shared<..> payload is a cell with its access
\* counter, which other handles to the same cell may have borrowed.
ValuesWith(accesses) ==
    LET Payloads == {"p", "q"}
        CellIds == {"c1", "c2"}
    IN
    [tag : InlineTags, payload : Payloads, ty : {NoType}, cell : {NoCell}, access : {0}]
    \cup [tag : {"Type"}, payload : {"p"}, ty : Hashes, cell : {NoCell}, access : {0}]
    \cup [tag : BuiltinTags, payload : Payloads, ty : {NoType}, cell : CellIds,
          access : accesses]
    \cup [tag : TypedTags, payload : Payloads, ty : Hashes, cell : CellIds,
          access : accesses]
    \cup [tag : {"External"}, payload : {"p"}, ty : TypeIds, cell : CellIds,
          access : accesses]

Values == ValuesWith((-MaxGuards..0) \cup {1})

\* Any::type_name of the held type
type_name(t) == IF t = "T" THEN "name::T" ELSE "name::U"

\* Shared::get_ref()? used for one expression: Ok iff the shared borrow is
\* granted; the temporary Ref is dropped at the end of the statement.
get_ref_ok(v) == shared(v.access).ok

VOk(info) == [ok |-> TRUE, err |-> "-", cell |-> NoCell, info |-> info]
VErr(err, info) == [ok |-> FALSE, err |-> err, cell |-> NoCell, info |-> info]
VCell(cell) == [ok |-> TRUE, err |-> "-", cell |-> cell, info |-> NoInfo]

\* Variant of Value::value_type that keeps the hash of a Type value.
value_type_keeps_hash(v) ==
    CASE v.tag \in TypedTags \cup {"External"} ->
            IF get_ref_ok(v) THEN VOk([kind |-> v.tag, of |-> v.ty])
            ELSE VErr("NotAccessibleRef", NoInfo)
      [] v.tag = "StaticString" -> VOk([kind |-> "String", of |-> NoType])
      [] OTHER -> VOk([kind |-> v.tag, of |-> v.ty])

\* Value::value_type(&self)
value_type(v) ==
    CASE v.tag \in TypedTags ->
            IF get_ref_ok(v) THEN VOk([kind |-> v.tag, of |-> v.ty])
            ELSE VErr("NotAccessibleRef", NoInfo)
      [] v.tag = "External" ->
            IF get_ref_ok(v) THEN VOk([kind |-> "External", of |-> v.ty])
            ELSE VErr("NotAccessibleRef", NoInfo)
      [] v.tag = "StaticString" -> VOk([kind |-> "String", of |-> NoType])
      [] OTHER -> VOk([kind |-> v.tag, of |-> NoType])

\* Value::type_info(&self)
type_info(v) ==
    CASE v.tag \in TypedTags ->
            IF get_ref_ok(v) THEN VOk([kind |-> v.tag, of |-> v.ty])
            ELSE VErr("NotAccessibleRef", NoInfo)
      [] v.tag = "External" ->
            IF get_ref_ok(v) THEN VOk([kind |-> "External", of |-> type_name(v.ty)])
            ELSE VErr("NotAccessibleRef", NoInfo)
      [] v.tag = "Type" -> VOk([kind |-> "Type", of |-> v.ty])
      [] v.tag = "StaticString" -> VOk([kind |-> "String", of |-> NoType])
      [] OTHER -> VOk([kind |-> v.tag, of |-> NoType])

\* Variant of the into_X match that hands out the cell of any heap value.
into_variant_any_cell(X, expected, v) ==
    IF v.cell # NoCell THEN VCell(v.cell)
    ELSE VErr(expected, type_info(v).info)

\* match self { Self::X(x) => Ok(x),
\*              actual => Err(VmError::ExpectedX { actual: actual.type_info()? }) }
into_variant(X, expected, v) ==
    IF v.tag = X THEN VCell(v.cell)
    ELSE LET actual == type_info(v)
         IN  IF actual.ok THEN VErr(expected, actual.info) ELSE actual

into_result(v) == into_variant("Result", "ExpectedResult", v)
into_option(v) == into_variant("Option", "ExpectedOption", v)
into_string(v) == into_variant("String", "ExpectedString", v)
into_bytes(v) == into_variant("Bytes", "ExpectedBytes", v)
into_vec(v) == into_variant("Vec", "ExpectedVec", v)
into_tuple(v) == into_variant("Tuple", "ExpectedTuple", v)
into_object(v) == into_variant("Object", "ExpectedObject", v)
into_external(v) == into_variant("External", "ExpectedExternal", v)

IntoOps == {"into_result", "into_option", "into_string", "into_bytes", "into_vec",
            "into_tuple", "into_object", "into_external"}

\* The coercion named op, applied to v
into(op, v) ==
    CASE op = "into_result" -> into_result(v)
      [] op = "into_option" -> into_option(v)
      [] op = "into_string" -> into_string(v)
      [] op = "into_bytes" -> into_bytes(v)
      [] op = "into_vec" -> into_vec(v)
      [] op = "into_tuple" -> into_tuple(v)
      [] op = "into_object" -> into_object(v)
      [] op = "into_external" -> into_external(v)

\* The value is still owned: no into_X has consumed it.
Owned == vout.op \notin IntoOps

VCall(op, r) == [op |-> op, ok |-> r.ok, err |-> r.err, cell |-> r.cell, info |-> r.info]

\* A value is constructed (its cell, if any, unborrowed).
Value_new(v) ==
    /\ v \in ValuesWith({0})
    /\ value' = v
    /\ vout' = VCall("new", VOk(NoInfo))

\* Another handle to the value's cell takes a shared borrow (Shared::get_ref).
Value_cell_get_ref ==
    /\ Owned /\ value.cell # NoCell
    /\ shared(value.access).ok
    /\ -shared(value.access).a <= MaxGuards
    /\ value' = [value EXCEPT !.access = shared(value.access).a]
    /\ vout' = VCall("cell_get_ref", VOk(NoInfo))

\* Another handle to the value's cell takes the exclusive borrow (Shared::get_mut).
Value_cell_get_mut ==
    /\ Owned /\ value.cell # NoCell
    /\ exclusive(value.access).ok
    /\ value' = [value EXCEPT !.access = exclusive(value.access).a]
    /\ vout' = VCall("cell_get_mut", VOk(NoInfo))

\* A guard on the value's cell is dropped.
Value_cell_guard_drop ==
    /\ Owned /\ value.access # 0
    /\ value' = [value EXCEPT !.access = IF value.access > 0
                                         THEN release_exclusive(value.access)
                                         ELSE release_shared(value.access)]
    /\ vout' = VCall("cell_guard_drop", VOk(NoInfo))

Value_value_type ==
    /\ Owned
    /\ vout' = VCall("value_type", value_type(value))
    /\ UNCHANGED value

Value_type_info ==
    /\ Owned
    /\ vout' = VCall("type_info", type_info(value))
    /\ UNCHANGED value

\* into_X(self): the value is moved into the call.
Value_into(op) ==
    /\ Owned
    /\ vout' = VCall(op, into(op, value))
    /\ UNCHANGED value

\* A step on the value leaves the other components alone.
Val(A) ==
    A /\ UNCHANGED <<cellVars, compileVars, vmVars, diagVars, declVars, countVars,
                     fromVars>>

NextValue ==
    \/ \E v \in ValuesWith({0}) : Val(Value_new(v))
    \/ Val(Value_cell_get_ref)
    \/ Val(Value_cell_get_mut)
    \/ Val(Value_cell_guard_drop)
    \/ Val(Value_value_type)
    \/ Val(Value_type_info)
    \/ \E op \in IntoOps : Val(Value_into(op))

SpecValue == Init /\ [][NextValue]_vars

\* The variant a coercion accepts and the error it gives otherwise
VariantOf(op) ==
    CASE op = "into_result" -> "Result"
      [] op = "into_option" -> "Option"
      [] op = "into_string" -> "String"
      [] op = "into_bytes" -> "Bytes"
      [] op = "into_vec" -> "Vec"
      [] op = "into_tuple" -> "Tuple"
      [] op = "into_object" -> "Object"
      [] op = "into_external" -> "External"

ExpectedOf(op) ==
    CASE op = "into_result" -> "ExpectedResult"
      [] op = "into_option" -> "ExpectedOption"
      [] op = "into_string" -> "ExpectedString"
      [] op = "into_bytes" -> "ExpectedBytes"
      [] op = "into_vec" -> "ExpectedVec"
      [] op = "into_tuple" -> "ExpectedTuple"
      [] op = "into_object" -> "ExpectedObject"
      [] op = "into_external" -> "ExpectedExternal"

\* The type info of a value whose cell nobody has borrowed
TypeInfoOf(v) == type_info([v EXCEPT !.access = 0]).info

\* C12 as stated: into_X returns the value's own shared cell when the value is of
\* variant X, and otherwise the error ExpectedX{actual} with actual = the type
\* info of the value, whatever the borrow state of the value's cell.
C12_IntoReturnsCellOrExpected ==
    vout.op \in IntoOps =>
        IF value.tag = VariantOf(vout.op)
        THEN vout.ok /\ vout.cell = value.cell /\ value.cell # NoCell
        ELSE /\ ~vout.ok
             /\ vout.err = ExpectedOf(vout.op)
             /\ vout.info = TypeInfoOf(value)

\* C12 amended: into_X returns the value's own shared cell when the value is of
\* variant X, whatever the cell's borrow state; for any other variant it fails:
\* with ExpectedX{actual = the value's type info} when the type info can be
\* read, and with the access error NotAccessibleRef when the value is a
\* TypedTuple, TypedObject or External whose cell is exclusively borrowed.
C12_IntoReturnsCellOrError ==
    vout.op \in IntoOps =>
        IF value.tag = VariantOf(vout.op)
        THEN vout.ok /\ vout.cell = value.cell /\ value.cell # NoCell
        ELSE IF value.tag \in TypedTags \cup {"External"} /\ value.access > 0
        THEN /\ ~vout.ok
             /\ vout.err = "NotAccessibleRef"
             /\ vout.info = NoInfo
        ELSE /\ ~vout.ok
             /\ vout.err = ExpectedOf(vout.op)
             /\ vout.info = TypeInfoOf(value)

\* into_vec of an External whose cell has a shared borrow out is rejected with
\* the type name of the external
C12_Witness ==
    /\ vout.op = "into_vec"
    /\ value.tag = "External"
    /\ value.access = -1
    /\ vout.err = "ExpectedVec"
    /\ vout.info = [kind |-> "External", of |-> type_name(value.ty)]

\* C13: value_type depends on the tag alone for primitive and built-in heap
\* variants, on the stored ty hash for TypedTuple / TypedObject and on the held
\* type id for External; values of different tags get different types, except
\* that StaticString and String both get String.
C13_ValueTypeOfTag ==
    vout.op = "value_type" =>
        /\ vout.ok = value_type(value).ok
        /\ ~vout.ok => value.tag \in TypedTags \cup {"External"} /\ value.access > 0
        /\ vout.ok =>
              \A w \in Values :
                  LET tw == value_type(w)
                      sameTag == \/ value.tag = w.tag
                                 \/ {value.tag, w.tag} = {"StaticString", "String"}
                  IN  tw.ok =>
                        /\ vout.info = tw.info =>
                              /\ sameTag
                              /\ value.tag \in TypedTags \cup {"External"}
                                    => value.ty = w.ty
                        /\ (sameTag /\ value.tag \in InlineTags \cup {"Type"} \cup BuiltinTags)
                              => vout.info = tw.info
                        /\ (sameTag /\ value.ty = w.ty) => vout.info = tw.info

\* value_type was called on a Type value, whose hash is not part of its type
C13_Witness ==
    /\ vout.op = "value_type"
    /\ vout.ok
    /\ value.tag = "Type"
    /\ value.ty = "h2"
    /\ vout.info = value_type([value EXCEPT !.ty = "h1"]).info

\* C26: for every value whose value_type is String, into_string succeeds;
\* equivalently into_string never returns ExpectedString { actual } with
\* actual = String.
C26_StringTypedIntoString ==
    vout.op = "into_string" =>
        /\ (value_type(value).ok /\ value_type(value).info.kind = "String") => vout.ok
        /\ ~(vout.err = "ExpectedString" /\ vout.info.kind = "String")

\* into_string succeeds exactly on the String variant; a StaticString, whose
\* value_type is String too, is rejected with ExpectedString { actual: String },
\* and no other value is rejected with that actual.
C26_IntoStringOfVariant ==
    vout.op = "into_string" =>
        /\ vout.ok <=> value.tag = "String"
        /\ vout.ok => vout.cell = value.cell
        /\ (vout.err = "ExpectedString" /\ vout.info.kind = "String")
              <=> value.tag = "StaticString"
        /\ (value_type(value).ok /\ value_type(value).info.kind = "String")
              <=> value.tag \in {"String", "StaticString"}

\* into_string of a static string fails although its value_type is String
C26_Witness ==
    /\ vout.op = "into_string"
    /\ value.tag = "StaticString"
    /\ value_type(value).info.kind = "String"
    /\ ~vout.ok
    /\ vout.err = "ExpectedString"
    /\ vout.info.kind = "String"

----------------------------------------------------------------------------
\* compile/expr_unary.rs: Compile<(&ast::ExprUnary, Needs)> for Compiler

MaxDepth == 3
MaxPrior == 1

\* A unary expression: the operators from the outermost in, and the operand of
\* the innermost. The expression at nesting depth d spans the source from
\* offset d to the end, so its start offset stands for its span.
\* The innermost operand is an expression that compiles ("lit") or one that
\* does not ("bad").
UnaryExprs ==
    [ops : UNION {[1..n -> {"Not", "BorrowRef", "Deref"}] : n \in 1..MaxDepth},
     leaf : {"lit", "bad"}]

COk(insts) == [ok |-> TRUE, err |-> "-", span |-> 0, insts |-> insts]
CErr(err, span, insts) == [ok |-> FALSE, err |-> err, span |-> span, insts |-> insts]
I(inst, span) == [inst |-> inst, span |-> span]

\* Needs::value()
needs_value(needs) == needs = "Value"

\* self.compile((&*expr_unary.expr, Needs::Value)) for an operand that is not
\* itself unary: it leaves its value on the stack, or fails.
compile_operand(leaf, at) ==
    IF leaf = "lit" THEN COk(<<I("Push", at)>>)
    ELSE CErr("OperandError", at, <<>>)

RECURSIVE compile_borrow_late(_, _, _, _)
\* Variant of the unary compile that looks at the operator only after the
\* operand has been compiled.
compile_borrow_late(ops, leaf, needs, at) ==
    LET operand == IF Tail(ops) = <<>> THEN compile_operand(leaf, at + 1)
                   ELSE compile_borrow_late(Tail(ops), leaf, "Value", at + 1)
    IN  IF ~operand.ok THEN operand
        ELSE IF Head(ops) = "BorrowRef" THEN CErr("UnsupportedRef", at, operand.insts)
        ELSE IF Head(ops) = "Not"
        THEN COk(operand.insts \o <<I("Not", at)>>
                 \o (IF ~needs_value(needs) THEN <<I("Pop", at)>> ELSE <<>>))
        ELSE CErr("UnsupportedUnaryOp", at, operand.insts)

RECURSIVE compile_skip_unneeded(_, _, _, _)
\* Variant of the unary compile that emits nothing for a value nobody needs.
compile_skip_unneeded(ops, leaf, needs, at) ==
    IF Head(ops) = "BorrowRef" THEN CErr("UnsupportedRef", at, <<>>)
    ELSE LET operand == IF Tail(ops) = <<>> THEN compile_operand(leaf, at + 1)
                        ELSE compile_skip_unneeded(Tail(ops), leaf, "Value", at + 1)
         IN  IF ~operand.ok THEN operand
             ELSE IF Head(ops) = "Not"
             THEN COk(IF needs_value(needs) THEN operand.insts \o <<I("Not", at)>>
                      ELSE <<>>)
             ELSE CErr("UnsupportedUnaryOp", at, operand.insts)

RECURSIVE compile(_, _, _, _)
\* Compiler::compile((expr_unary, needs)) for the unary expression with
\* operators ops over the operand leaf, starting at offset at. The result
\* carries the instructions pushed to asm, also when it is an error.
compile(ops, leaf, needs, at) ==
    IF Head(ops) = "BorrowRef" THEN CErr("UnsupportedRef", at, <<>>)
    ELSE LET operand == IF Tail(ops) = <<>> THEN compile_operand(leaf, at + 1)
                        ELSE compile(Tail(ops), leaf, "Value", at + 1)
         IN  IF ~operand.ok THEN operand
             ELSE IF Head(ops) = "Not"
             THEN COk(operand.insts \o <<I("Not", at)>>
                      \o (IF ~needs_value(needs) THEN <<I("Pop", at)>> ELSE <<>>))
             ELSE CErr("UnsupportedUnaryOp", at, operand.insts)

\* Compiler::new: an empty assembly
Compiler_new ==
    /\ cout.op # "new"
    /\ asm' = <<>>
    /\ cout' = [op |-> "new", ops |-> <<>>, leaf |-> "lit", needs |-> "Value",
                ok |-> TRUE, err |-> "-", span |-> 0, before |-> 0]

\* An earlier expression of the function was compiled: its instruction is in
\* asm when the unary expression is reached.
Compile_earlier ==
    /\ cout.op # "compile"
    /\ Len(asm) < MaxPrior
    /\ asm' = Append(asm, I("Push", 0))
    /\ cout' = [cout EXCEPT !.op = "earlier"]

\* A unary expression is compiled at the top level (span start 0).
Compile_unary(e, needs) ==
    LET r == compile(e.ops, e.leaf, needs, 0)
    IN  /\ cout.op # "compile"
        /\ asm' = asm \o r.insts
        /\ cout' = [op |-> "compile", ops |-> e.ops, leaf |-> e.leaf, needs |-> needs,
                    ok |-> r.ok, err |-> r.err, span |-> r.span, before |-> Len(asm)]

\* A step of the compiler leaves the other components alone.
Comp(A) ==
    A /\ UNCHANGED <<cellVars, valueVars, vmVars, diagVars, declVars, countVars,
                     fromVars>>

NextCompile ==
    \/ Comp(Compiler_new)
    \/ Comp(Compile_earlier)
    \/ \E e \in UnaryExprs, needs \in {"Value", "None"} : Comp(Compile_unary(e, needs))

SpecCompile == Init /\ [][NextCompile]_vars

\* The instructions the last compile call pushed
Emitted == SubSeq(asm, cout.before + 1, Len(asm))

\* Effect of one instruction on the stack depth
StackEffect(i) ==
    CASE i.inst = "Push" -> 1
      [] i.inst = "Not" -> 0
      [] i.inst = "Pop" -> -1

RECURSIVE StackNet(_)
StackNet(insts) ==
    IF insts = <<>> THEN 0 ELSE StackEffect(Head(insts)) + StackNet(Tail(insts))

\* C14: compiling `&expr` fails with UnsupportedRef carrying the span of the
\* whole unary expression, for Needs::Value and Needs::None alike, and pushes
\* no instruction before the error.
C14_BorrowRefUnsupported ==
    (cout.op = "compile" /\ Head(cout.ops) = "BorrowRef") =>
        /\ ~cout.ok
        /\ cout.err = "UnsupportedRef"
        /\ cout.span = 0
        /\ Emitted = <<>>

\* `&!lit` compiled with the value discarded, after an earlier compile
C14_Witness ==
    /\ cout.op = "compile"
    /\ cout.ops = <<"BorrowRef", "Not">>
    /\ cout.leaf = "lit"
    /\ cout.needs = "None"
    /\ cout.err = "UnsupportedRef"
    /\ cout.before > 0

\* C15: for `!e` whose operand compiles to instructions netting +1, the
\* instructions emitted are the operand's followed by Not, netting +1, when
\* the value is needed, and the operand's followed by Not and Pop, netting 0,
\* when it is discarded; the operand is evaluated in both cases.
C15_NotStackBalance ==
    (cout.op = "compile" /\ Head(cout.ops) = "Not" /\ cout.ok) =>
        \E n \in 1..Len(Emitted) :
            LET operand == SubSeq(Emitted, 1, n)
                rest == SubSeq(Emitted, n + 1, Len(Emitted))
            IN  /\ StackNet(operand) = 1
                /\ \A k \in 1..n : operand[k].span > 0
                /\ \A k \in 1..Len(rest) : rest[k].span = 0
                /\ IF needs_value(cout.needs)
                   THEN rest = <<I("Not", 0)>> /\ StackNet(Emitted) = 1
                   ELSE rest = <<I("Not", 0), I("Pop", 0)>> /\ StackNet(Emitted) = 0

\* `!!lit` compiled with the value discarded
C15_Witness ==
    /\ cout.op = "compile"
    /\ cout.ops = <<"Not", "Not">>
    /\ cout.needs = "None"
    /\ cout.ok
    /\ Len(Emitted) = 4

----------------------------------------------------------------------------
\* st/reflection/mod.rs: IntoArgs for tuples; examples/basic_add.rs: Vm::call

MaxArgs == 2
MaxBelow == 1

\* The 64-bit integers of the machine, modelled 16 bits wide
I64_MAX == 32767
I64_wrap(x) ==
    IF x > I64_MAX THEN x - 2 * (I64_MAX + 1)
    ELSE IF x < -I64_MAX - 1 THEN x + 2 * (I64_MAX + 1)
    ELSE x

\* Host integers passed as arguments
ArgVals == {33, -10, I64_MAX - 5}
ArgTuples == UNION {[1..n -> ArgVals] : n \in 0..MaxArgs}

\* IntoArgs::count() of an n-tuple
count(tuple) == Len(tuple)

RECURSIVE push_each(_, _, _)
\* `let v = v.unsafe_to_value(vm)?; vm.push(v);` for each variable of vars in
\* turn; the conversion numbered failAt fails (0: none does).
push_each(vals, stk, failAt) ==
    IF vals = <<>> THEN [ok |-> TRUE, stack |-> stk]
    ELSE IF failAt = 1 THEN [ok |-> FALSE, stack |-> stk]
    ELSE push_each(Tail(vals), Append(stk, Head(vals)),
                   IF failAt = 0 THEN 0 ELSE failAt - 1)

\* Variant of the push order that keeps the tuple's order.
push_order_as_written(tuple) == tuple

\* The variable list after impl_into_args!(@push ..) has moved every variable
\* of [h g .. a] to the front of its accumulator: the tuple's last element
\* comes first.
push_order(tuple) == [k \in 1..Len(tuple) |-> tuple[Len(tuple) + 1 - k]]

\* Variant of into_args that pushes one value less than the tuple holds.
into_args_short(tuple, stk, failAt) ==
    push_each(IF tuple = <<>> THEN <<>> ELSE Tail(push_order(tuple)), stk, failAt)

\* IntoArgs::into_args(self, vm) for a tuple
into_args(tuple, stk, failAt) == push_each(push_order(tuple), stk, failAt)

\* The unit compiled from `fn main(number) { number + 10 }`: the argument is
\* the local at offset 0 of the frame, the tail expression is returned.
Program ==
    <<[inst |-> "Copy", n |-> 0], [inst |-> "Integer", n |-> 10],
      [inst |-> "Add", n |-> 0], [inst |-> "Return", n |-> 0]>>
MainArgs == Len(<<"number">>)

\* Vm::new
Vm_new ==
    /\ vmout.op # "new"
    /\ stack' = <<>> /\ frames' = <<>> /\ ip' = 0
    /\ halt' = [kind |-> "none", value |-> 0]
    /\ vmout' = [op |-> "new", tuple |-> <<>>, before |-> <<>>, ok |-> TRUE]

\* Vm::push by the host, outside a call
Vm_push(v) ==
    /\ vmout.op \in {"new", "push"}
    /\ Len(stack) < MaxBelow
    /\ stack' = Append(stack, v)
    /\ vmout' = [op |-> "push", tuple |-> <<>>, before |-> stack, ok |-> TRUE]
    /\ UNCHANGED <<frames, ip, halt>>

\* args.into_args(&mut vm)
IntoArgs_into_args(tuple, failAt) ==
    /\ vmout.op \in {"new", "push"}
    /\ failAt <= count(tuple)
    /\ LET r == into_args(tuple, stack, failAt)
       IN  /\ stack' = r.stack
           /\ vmout' = [op |-> "into_args", tuple |-> tuple, before |-> stack,
                        ok |-> r.ok]
    /\ UNCHANGED <<frames, ip, halt>>

\* vm.call(&["main"], args): the arguments are encoded onto the stack and the
\* root frame is set up with base = stack_len - n.
Vm_call(tuple, failAt) ==
    /\ vmout.op \in {"new", "push"}
    /\ failAt <= count(tuple)
    /\ LET r == into_args(tuple, stack, failAt)
       IN  /\ stack' = r.stack
           /\ vmout' = [op |-> "call", tuple |-> tuple, before |-> stack, ok |-> r.ok]
           /\ IF ~r.ok
              THEN /\ halt' = [kind |-> "StackError", value |-> 0]
                   /\ UNCHANGED <<frames, ip>>
              ELSE IF count(tuple) # MainArgs
              THEN /\ halt' = [kind |-> "ArgumentCountMismatch", value |-> 0]
                   /\ UNCHANGED <<frames, ip>>
              ELSE /\ frames' = <<[return_ip |-> 0, kind |-> "root",
                                   base |-> Len(r.stack) - count(tuple)]>>
                   /\ ip' = 1
                   /\ halt' = [kind |-> "running", value |-> 0]

\* One instruction of complete(): the stepping routine
Vm_step ==
    /\ halt.kind = "running"
    /\ LET i == Program[ip]
           base == frames[Len(frames)].base
           n == Len(stack)
           Fail(kind) == /\ halt' = [kind |-> kind, value |-> 0]
                         /\ UNCHANGED <<stack, frames, ip>>
       IN  CASE i.inst = "Copy" ->
                  IF base + i.n + 1 > n THEN Fail("StackOutOfBounds")
                  ELSE /\ stack' = Append(stack, stack[base + i.n + 1])
                       /\ ip' = ip + 1
                       /\ UNCHANGED <<frames, halt>>
             [] i.inst = "Integer" ->
                  /\ stack' = Append(stack, i.n)
                  /\ ip' = ip + 1
                  /\ UNCHANGED <<frames, halt>>
             [] i.inst = "Add" ->
                  IF n < 2 THEN Fail("StackEmpty")
                  ELSE LET sum == stack[n - 1] + stack[n]
                       IN  IF sum = I64_wrap(sum)
                           THEN /\ stack' = Append(SubSeq(stack, 1, n - 2), sum)
                                /\ ip' = ip + 1
                                /\ UNCHANGED <<frames, halt>>
                           ELSE \E policy \in {"checked", "wrapping"} :
                                  IF policy = "checked" THEN Fail("Overflow")
                                  ELSE /\ stack' = Append(SubSeq(stack, 1, n - 2),
                                                          I64_wrap(sum))
                                       /\ ip' = ip + 1
                                       /\ UNCHANGED <<frames, halt>>
             [] i.inst = "Return" ->
                  IF n < 1 \/ base > n - 1 THEN Fail("StackEmpty")
                  ELSE /\ stack' = Append(SubSeq(stack, 1, base), stack[n])
                       /\ ip' = frames[Len(frames)].return_ip
                       /\ frames' = SubSeq(frames, 1, Len(frames) - 1)
                       /\ halt' = IF frames[Len(frames)].kind = "root"
                                  THEN [kind |-> "Completed", value |-> stack[n]]
                                  ELSE halt
    /\ UNCHANGED vmout

\* A step of the machine leaves the other components alone.
Machine(A) ==
    A /\ UNCHANGED <<cellVars, valueVars, compileVars, diagVars, declVars, countVars,
                     fromVars>>

NextVm ==
    \/ Machine(Vm_new)
    \/ \E v \in ArgVals : Machine(Vm_push(v))
    \/ \E t \in ArgTuples, f \in 0..MaxArgs : Machine(IntoArgs_into_args(t, f))
    \/ \E t \in ArgTuples, f \in 0..MaxArgs : Machine(Vm_call(t, f))
    \/ Machine(Vm_step)

SpecVm == Init /\ [][NextVm]_vars

\* The values the last host call left above the stack it found
Pushed == SubSeq(stack, Len(vmout.before) + 1, Len(stack))

\* C16 as stated: into_args of an n-tuple pushes exactly n = count() values in tuple
\* order, the last argument of the tuple on top of the stack.
C16_ArgsInTupleOrder ==
    (vmout.op = "into_args" /\ vmout.ok) =>
        /\ Len(stack) = Len(vmout.before) + count(vmout.tuple)
        /\ SubSeq(stack, 1, Len(vmout.before)) = vmout.before
        /\ Pushed = vmout.tuple
        /\ vmout.tuple # <<>> => stack[Len(stack)] = vmout.tuple[Len(vmout.tuple)]

\* C16 amended: a successful into_args of an n-tuple pushes exactly
\* n = count() values above the stack it found, in reverse tuple order: the
\* last argument lowest, the first argument on top of the stack; a failing
\* conversion ends it with fewer than n values pushed.
C16_ArgsInReverseOrder ==
    vmout.op = "into_args" =>
        /\ SubSeq(stack, 1, Len(vmout.before)) = vmout.before
        /\ vmout.ok =>
              /\ Len(Pushed) = count(vmout.tuple)
              /\ \A k \in 1..Len(Pushed) :
                    Pushed[k] = vmout.tuple[Len(vmout.tuple) + 1 - k]
              /\ vmout.tuple # <<>> => stack[Len(stack)] = vmout.tuple[1]
        /\ ~vmout.ok => Len(Pushed) < count(vmout.tuple)

\* (33, -10) encoded above a value already on the stack
C16_Witness ==
    /\ vmout.op = "into_args"
    /\ vmout.ok
    /\ vmout.tuple = <<33, -10>>
    /\ vmout.before # <<>>
    /\ Pushed = <<-10, 33>>

----------------------------------------------------------------------------
\* diagnostics.rs: EmitDiagnostics for LoadError, LoadErrorKind::LinkError

MaxErrors == 2
MaxSpans == 2

\* Call-site spans and the link errors holding them
LinkErrors ==
    LET Spans == {[start |-> 1, end |-> 4], [start |-> 7, end |-> 9]}
        SpanLists == UNION {[1..n -> Spans] : n \in 0..MaxSpans}
        MissingFunctions == [hash : Hashes, spans : SpanLists]
    IN  UNION {[1..k -> MissingFunctions] : k \in 0..MaxErrors}

\* for span in spans { labels.push(Label::primary(source_id, span.start..span.end)
\*                                     .with_message("called here.")) }
labels_of(spans) ==
    [j \in 1..Len(spans) |->
        [style |-> "primary", range |-> spans[j], message |-> "called here."]]

\* Diagnostic::error().with_message(format!(..)).with_labels(labels)
diagnostic_of(error) ==
    [severity |-> "error",
     message |-> [text |-> "missing function with hash", hash |-> error.hash],
     labels |-> labels_of(error.spans)]

\* Variant of the loop over the link errors that returns after the first one.
emit_link_errors_first_only(errors, written, failAt) ==
    IF errors = <<>> THEN [ok |-> TRUE, out |-> written]
    ELSE IF failAt = 1 THEN [ok |-> FALSE, out |-> written]
    ELSE [ok |-> TRUE, out |-> Append(written, diagnostic_of(Head(errors)))]

RECURSIVE emit_link_errors(_, _, _)
\* for error in errors { .. term::emit(out, &config, &files, &diagnostic)?; }
\* The writer fails on the emit numbered failAt (0: on none), which ends the
\* loop with the error.
emit_link_errors(errors, written, failAt) ==
    IF errors = <<>> THEN [ok |-> TRUE, out |-> written]
    ELSE IF failAt = 1 THEN [ok |-> FALSE, out |-> written]
    ELSE emit_link_errors(Tail(errors), Append(written, diagnostic_of(Head(errors))),
                          IF failAt = 0 THEN 0 ELSE failAt - 1)

\* A fresh writer
Writer_new ==
    /\ dout.op = "emit"
    /\ out' = <<>>
    /\ dout' = [op |-> "new", errors |-> <<>>, ok |-> TRUE]

\* LoadError::emit_diagnostics(self, out) for LoadErrorKind::LinkError
LoadError_emit_diagnostics(errors, failAt) ==
    /\ dout.op # "emit"
    /\ failAt <= Len(errors)
    /\ LET r == emit_link_errors(errors, out, failAt)
       IN  /\ out' = r.out
           /\ dout' = [op |-> "emit", errors |-> errors, ok |-> r.ok]

\* The load errors that can be handed to the writer: it takes one LoadError.
Loadable == IF dout.op = "emit" THEN {} ELSE LinkErrors

\* A step of the reporting leaves the other components alone.
Diag(A) ==
    A /\ UNCHANGED <<cellVars, valueVars, compileVars, vmVars, declVars, countVars,
                     fromVars>>

NextDiag ==
    \/ Diag(Writer_new)
    \/ \E errors \in Loadable, failAt \in 0..MaxErrors :
          Diag(LoadError_emit_diagnostics(errors, failAt))

SpecDiag == Init /\ [][NextDiag]_vars

\* C17: link errors are reported in bulk: with k MissingFunction entries and a
\* writer that takes them, all k are reported, one diagnostic per entry in
\* order, each with exactly one label per call-site span of its entry; only a
\* failing writer ends the reporting early.
C17_LinkErrorsInBulk ==
    dout.op = "emit" =>
        /\ dout.ok => Len(out) = Len(dout.errors)
        /\ Len(out) <= Len(dout.errors)
        /\ ~dout.ok => Len(out) < Len(dout.errors)
        /\ \A i \in 1..Len(out) :
              /\ out[i].severity = "error"
              /\ out[i].message.hash = dout.errors[i].hash
              /\ Len(out[i].labels) = Len(dout.errors[i].spans)
              /\ \A j \in 1..Len(out[i].labels) :
                    /\ out[i].labels[j].range = dout.errors[i].spans[j]
                    /\ out[i].labels[j].style = "primary"

\* two missing functions, the first called from two places, both reported
C17_Witness ==
    /\ dout.op = "emit"
    /\ dout.ok
    /\ Len(dout.errors) = 2
    /\ Len(dout.errors[1].spans) = 2
    /\ dout.errors[1].hash # dout.errors[2].hash
    /\ Len(out) = 2
    /\ Len(out[1].labels) = 2

----------------------------------------------------------------------------
\* ast/decl.rs: Peek and Parse for Decl

MaxTokens == 2

\* ast::Kind: the five declaration keywords and two kinds that start none
Kinds == {"Use", "Enum", "Struct", "Impl", "Fn", "Let", "Ident"}

\* <Decl as Peek>::peek(t1, _)
peek(t1) ==
    IF t1 = "eof" THEN FALSE
    ELSE CASE t1 = "Use" -> TRUE
           [] t1 = "Enum" -> TRUE
           [] t1 = "Struct" -> TRUE
           [] t1 = "Fn" -> TRUE
           [] OTHER -> FALSE

\* Parser::token_peek_eof: the next token, or an error at the end of input
token_peek_eof(ts) ==
    IF ts = <<>> THEN [ok |-> FALSE, kind |-> "eof"]
    ELSE [ok |-> TRUE, kind |-> Head(ts)]

\* the arm of the match in <Decl as Parse>::parse
parse_arm(kind) ==
    CASE kind = "Use" -> "DeclUse"
      [] kind = "Enum" -> "DeclEnum"
      [] kind = "Struct" -> "DeclStruct"
      [] kind = "Impl" -> "DeclImpl"
      [] OTHER -> "DeclFn"

\* the token Parser hands to peek as t1
first_token(ts) == IF ts = <<>> THEN "eof" ELSE Head(ts)

\* Parser::new over a source with the token kinds ts
Parser_new(ts) ==
    /\ tokens' = ts
    /\ pout' = [op |-> "new", t1 |-> first_token(ts), to |-> "-", res |-> "none",
                used |-> 0]

\* parser.peek::<Decl>(): no token is consumed
Decl_peek ==
    /\ pout.op # "init"
    /\ pout' = [op |-> "peek", t1 |-> first_token(tokens), to |-> "-",
                res |-> IF peek(first_token(tokens)) THEN "true" ELSE "false",
                used |-> 0]
    /\ UNCHANGED tokens

\* Decl::parse(parser): the arm's parser consumes `used` tokens when it
\* succeeds (ok); its error is returned by the `?` otherwise.
Decl_parse(ok, used) ==
    /\ pout.op # "init"
    /\ LET t == token_peek_eof(tokens)
       IN  IF ~t.ok
           THEN /\ pout' = [op |-> "parse", t1 |-> "eof", to |-> "-", res |-> "Err",
                            used |-> 0]
                /\ UNCHANGED tokens
           ELSE IF ok
           THEN /\ used \in 1..Len(tokens)
                /\ tokens' = SubSeq(tokens, used + 1, Len(tokens))
                /\ pout' = [op |-> "parse", t1 |-> t.kind, to |-> parse_arm(t.kind),
                            res |-> parse_arm(t.kind), used |-> used]
           ELSE /\ used = 1
                /\ pout' = [op |-> "parse", t1 |-> t.kind, to |-> parse_arm(t.kind),
                            res |-> "Err", used |-> 0]
                /\ UNCHANGED tokens

\* A step of the parser leaves the other components alone.
Syntax(A) ==
    A /\ UNCHANGED <<cellVars, valueVars, compileVars, vmVars, diagVars, countVars,
                     fromVars>>

NextDecl ==
    \/ \E ts \in UNION {[1..k -> Kinds] : k \in 0..MaxTokens} : Syntax(Parser_new(ts))
    \/ Syntax(Decl_peek)
    \/ \E ok \in BOOLEAN, used \in 1..MaxTokens : Syntax(Decl_parse(ok, used))

SpecDecl == Init /\ [][NextDecl]_vars

\* C27: peek and parse agree on the leading token: peek is true for exactly
\* use, enum, struct, impl and fn and false on end of input, and parse on end
\* of input returns an error without producing a declaration.
C27_PeekAgreesWithParse ==
    /\ pout.op = "peek" =>
          /\ pout.res = "true" <=> pout.t1 \in {"Use", "Enum", "Struct", "Impl", "Fn"}
          /\ pout.t1 = "eof" => pout.res = "false"
    /\ (pout.op = "parse" /\ pout.t1 = "eof") => (pout.res = "Err" /\ pout.to = "-")

\* What the two do: peek is true for use, enum, struct and fn only; parse
\* sends impl to DeclImpl, every token that is not use, enum, struct or impl
\* to the function parser, and fails at the end of input.
C27_PeekAsWritten ==
    /\ pout.op = "peek" =>
          /\ pout.res = "true" <=> pout.t1 \in {"Use", "Enum", "Struct", "Fn"}
          /\ pout.t1 \in {"eof", "Impl"} => pout.res = "false"
    /\ pout.op = "parse" =>
          /\ pout.t1 = "eof" => (pout.res = "Err" /\ pout.to = "-")
          /\ pout.t1 = "Impl" => pout.to = "DeclImpl"
          /\ pout.t1 \in {"Fn", "Let", "Ident"} => pout.to = "DeclFn"
          /\ pout.res # "Err" => pout.res = pout.to

\* peek answers false on a stream that starts with impl
C27_Witness ==
    /\ pout.op = "peek"
    /\ pout.t1 = "Impl"
    /\ pout.res = "false"
    /\ parse_arm(Head(tokens)) = "DeclImpl"

----------------------------------------------------------------------------
\* vm/ref_count.rs: RefCount, and the strong cnt of shared.rs, as counters

MaxOps == 4

\* Variant of RefCount::inc with a wrapping addition.
inc_wrapping(cnt) ==
    [panic |-> FALSE, count |-> (cnt + 1) % (USIZE_MAX + 1)]

\* RefCount::inc(&self)
inc(cnt) ==
    LET \* checked_add(1)
        c == IF cnt = USIZE_MAX THEN [some |-> FALSE, value |-> 0]
             ELSE [some |-> TRUE, value |-> cnt + 1]
    IN  IF c.some THEN [panic |-> FALSE, count |-> c.value]
        ELSE [panic |-> TRUE, count |-> cnt]

\* RefCount::dec(&self) -> bool
dec(cnt) ==
    LET \* checked_sub(1)
        c == IF cnt = 0 THEN [some |-> FALSE, value |-> 0]
             ELSE [some |-> TRUE, value |-> cnt - 1]
    IN  IF c.some THEN [panic |-> FALSE, count |-> c.value, zero |-> c.value = 0]
        ELSE [panic |-> TRUE, count |-> cnt, zero |-> FALSE]

\* the process is still running: no panic or abort has happened
Counting == rcout.op # "init" /\ rcout.res \notin {"panic", "abort"} /\ rcout.n < MaxOps

RcCall(op, res) == [op |-> op, before |-> rc, res |-> res, n |-> rcout.n + 1]

\* RefCount::new(cnt), or a cell whose strong cnt stands at cnt
RefCount_new(cnt) ==
    /\ rc' = cnt
    /\ rcout' = [op |-> "new", before |-> cnt, res |-> "none", n |-> 0]

RefCount_inc ==
    /\ Counting
    /\ rc' = inc(rc).count
    /\ rcout' = RcCall("inc", IF inc(rc).panic THEN "panic" ELSE "ok")

RefCount_dec ==
    /\ Counting
    /\ rc' = dec(rc).count
    /\ rcout' = RcCall("dec", IF dec(rc).panic THEN "panic"
                              ELSE IF dec(rc).zero THEN "true" ELSE "false")

\* Clone for Shared, on the cnt alone
Count_clone ==
    /\ Counting
    /\ rc' = clone_count(rc).count
    /\ rcout' = RcCall("clone", IF clone_count(rc).abort THEN "abort" ELSE "ok")

\* Drop for Shared, on the cnt alone
Count_drop ==
    /\ Counting
    /\ rc' = drop_count(rc).count
    /\ rcout' = RcCall("drop", IF drop_count(rc).abort THEN "abort"
                               ELSE IF drop_count(rc).free THEN "free" ELSE "ok")

\* Drop for RawInner (the token of a strong guard), on the cnt alone
Count_token_drop ==
    /\ Counting
    /\ rc' = drop_fn_impl(rc).count
    /\ rcout' = RcCall("token_drop", IF drop_fn_impl(rc).abort THEN "abort"
                                     ELSE IF drop_fn_impl(rc).free THEN "free" ELSE "ok")

\* A step on the counter leaves the other components alone.
Counter(A) ==
    A /\ UNCHANGED <<cellVars, valueVars, compileVars, vmVars, diagVars, declVars,
                     fromVars>>

NextCount ==
    \* counts next to both ends of usize
    \/ \E cnt \in {0, 1, 2, USIZE_MAX - 1, USIZE_MAX} : Counter(RefCount_new(cnt))
    \/ Counter(RefCount_inc)
    \/ Counter(RefCount_dec)
    \/ Counter(Count_clone)
    \/ Counter(Count_drop)
    \/ Counter(Count_token_drop)

SpecCount == Init /\ [][NextCount]_vars

\* C28: the counters never wrap: clone aborts at 0 and at usize::MAX, the two
\* drops abort at 0, inc panics at usize::MAX and dec at 0, every other call
\* moves the cnt by exactly one, a failed call leaves it alone, and dec
\* answers true exactly when the cnt it leaves is 0.
C28_CountersNeverWrap ==
    /\ rc \in 0..USIZE_MAX
    /\ rcout.op = "inc" =>
          /\ rcout.res = "panic" <=> rcout.before = USIZE_MAX
          /\ rcout.res # "panic" => rc = rcout.before + 1
    /\ rcout.op = "dec" =>
          /\ rcout.res = "panic" <=> rcout.before = 0
          /\ rcout.res # "panic" => rc = rcout.before - 1
          /\ rcout.res = "true" <=> (rcout.before # 0 /\ rc = 0)
    /\ rcout.op = "clone" =>
          /\ rcout.res = "abort" <=> rcout.before \in {0, USIZE_MAX}
          /\ rcout.res # "abort" => rc = rcout.before + 1
    /\ rcout.op \in {"drop", "token_drop"} =>
          /\ rcout.res = "abort" <=> rcout.before = 0
          /\ rcout.res # "abort" => rc = rcout.before - 1
          /\ rcout.res = "free" <=> (rcout.before # 0 /\ rc = 0)
    /\ rcout.res \in {"panic", "abort"} => rc = rcout.before

\* inc on a cnt of usize::MAX panicked and left the cnt alone
C28_Witness ==
    /\ rcout.op = "inc"
    /\ rcout.before = USIZE_MAX
    /\ rcout.res = "panic"
    /\ rc = USIZE_MAX

----------------------------------------------------------------------------
\* reflection/mod.rs: impl_from_value_tuple!

MaxArity == 2

\* array elements: two that convert to the element type and one that does not
PtrValues ==
    LET Elems == {"v1", "v2", "bad"}
        Arrays == UNION {[1..k -> Elems] : k \in 0..(MaxArity + 1)}
    IN  {[kind |-> "Array", elems |-> a] : a \in Arrays}
            \cup {[kind |-> k, elems |-> <<>>] : k \in {"Unit", "Integer"}}

\* <$ty>::from_value(*value, vm) of one element
elem_from_value(e) ==
    CASE e = "v1" -> [ok |-> TRUE, val |-> "t1"]
      [] e = "v2" -> [ok |-> TRUE, val |-> "t2"]
      [] OTHER -> [ok |-> FALSE, val |-> "-"]

FOk(tuple, log) ==
    [ok |-> TRUE, err |-> "-", tuple |-> tuple, log |-> log, actual |-> "-",
     len |-> 0, expected |-> 0]
FErr(err, log, actual, len, expected) ==
    [ok |-> FALSE, err |-> err, tuple |-> <<>>, log |-> log, actual |-> actual,
     len |-> len, expected |-> expected]

\* Variant of the element loop that goes on after a failed conversion.
RECURSIVE bind_vars_all(_, _, _, _, _)
bind_vars_all(array, n, i, tuple, log) ==
    IF i > n THEN FOk(tuple, log)
    ELSE IF i > Len(array) THEN FErr("IterationError", log, "-", 0, 0)
    ELSE bind_vars_all(array, n, i + 1, Append(tuple, elem_from_value(array[i]).val),
                       Append(log, i))

\* $( let $var: $ty = match it.next() { Some(value) => from_value(*value)?,
\*                                      None => return Err(IterationError) }; )*
\* for the variables from the i-th on; log lists the indices converted
RECURSIVE bind_vars(_, _, _, _, _)
bind_vars(array, n, i, tuple, log) ==
    IF i > n THEN FOk(tuple, log)
    ELSE IF i > Len(array) THEN FErr("IterationError", log, "-", 0, 0)
    ELSE LET r == elem_from_value(array[i])
         IN  IF ~r.ok THEN FErr("ElementError", Append(log, i), "-", 0, 0)
             ELSE bind_vars(array, n, i + 1, Append(tuple, r.val), Append(log, i))

\* <($($ty,)*) as FromValue>::from_value(value, vm) for the tuple of arity n;
\* readable: vm.array_ref(slot) / actual.type_info(vm) returned Ok
from_value(n, ptr, readable) ==
    IF ~readable THEN FErr("VmError", <<>>, "-", 0, 0)
    ELSE IF ptr.kind # "Array"
    THEN FErr("ExpectedArray", <<>>, ptr.kind, 0, 0)
    ELSE IF Len(ptr.elems) # n
    THEN FErr("ExpectedArrayLength", <<>>, "-", Len(ptr.elems), n)
    ELSE bind_vars(ptr.elems, n, 1, <<>>, <<>>)

\* a host call <(A, B, ..)>::from_value(value, vm)
FromValue_from_value(n, ptr, readable) ==
    LET r == from_value(n, ptr, readable)
    IN  fout' = [op |-> "from_value", n |-> n, value |-> ptr, readable |-> readable,
                 ok |-> r.ok, err |-> r.err, tuple |-> r.tuple, log |-> r.log,
                 actual |-> r.actual, len |-> r.len, expected |-> r.expected]

\* A conversion leaves the other components alone.
Reflect(A) ==
    A /\ UNCHANGED <<cellVars, valueVars, compileVars, vmVars, diagVars, declVars,
                     countVars>>

NextFrom ==
    \E n \in 0..MaxArity, ptr \in PtrValues, readable \in BOOLEAN :
        Reflect(FromValue_from_value(n, ptr, readable))

SpecFrom == Init /\ [][NextFrom]_vars

\* C29: from_value for an n-tuple succeeds only on an array of length n; a
\* non-array gives ExpectedArray { actual }, another length gives
\* ExpectedArrayLength { actual: len, expected: n } with no element converted,
\* elements are converted in index order into the position of their index,
\* and the first element error is returned.
C29_TupleFromArray ==
    fout.op = "from_value" =>
        /\ fout.ok => (fout.value.kind = "Array" /\ Len(fout.value.elems) = fout.n)
        /\ fout.readable =>
            /\ fout.value.kind # "Array" =>
                  /\ fout.err = "ExpectedArray"
                  /\ fout.actual = fout.value.kind
                  /\ fout.log = <<>>
            /\ (fout.value.kind = "Array" /\ Len(fout.value.elems) # fout.n) =>
                  /\ fout.err = "ExpectedArrayLength"
                  /\ fout.len = Len(fout.value.elems)
                  /\ fout.expected = fout.n
                  /\ fout.log = <<>>
            /\ (fout.value.kind = "Array" /\ Len(fout.value.elems) = fout.n) =>
                  LET elems == fout.value.elems
                      \* the first index whose element does not convert, or 0
                      bad == IF \E i \in 1..Len(elems) : elems[i] = "bad"
                             THEN Min({i \in 1..Len(elems) : elems[i] = "bad"})
                             ELSE 0
                  IN  /\ fout.ok <=> bad = 0
                      /\ fout.ok =>
                            /\ Len(fout.tuple) = fout.n
                            /\ \A i \in 1..fout.n :
                                  fout.tuple[i] = elem_from_value(fout.value.elems[i]).val
                            /\ fout.log = [i \in 1..fout.n |-> i]
                      /\ ~fout.ok =>
                            /\ fout.err = "ElementError"
                            /\ fout.log = [i \in 1..bad |-> i]
        /\ ~fout.readable => (~fout.ok /\ fout.err = "VmError" /\ fout.log = <<>>)

\* a pair read from an array of two different elements
C29_Witness ==
    /\ fout.op = "from_value"
    /\ fout.n = 2
    /\ fout.value.elems = <<"v2", "v1">>
    /\ fout.ok
    /\ fout.tuple = <<"t2", "t1">>

====
